---- MODULE Spec2Model ----
(***************************************************************************)
(* Transcript acquisition and fallback resolution of chatbot-zen           *)
(* (src/src/fetch_transcripts.py): main(), _load_video_list(),             *)
(* _download_subs_for_video() and _fallback_yta() as a state machine.      *)
(*                                                                         *)
(* Strings that the code takes apart (file names, glob patterns, language  *)
(* tags, video ids) are sequences of one-character strings; the fixed       *)
(* prefix "Transcript " and the extension "srt" are single symbols.         *)
(* An optional value is <<>> (None) or <<x>>.                               *)
(***************************************************************************)
EXTENDS Integers, Sequences, FiniteSets, TLC

\* ------------------------------------------------------------------ bounds
MaxVideos == 2      \* longest video list the input may hold
MaxSegs == 3        \* longest transcript handed to _write_srt_file
MaxTracks == 2      \* longest track listing of the transcript API

\* ------------------------------------------------------- program constants
MinSize == 100      \* a file is acceptable when st_size > 100

None == <<>>
Some(x) == <<x>>

EnUS == <<"e", "n", "-", "U", "S">>
En == <<"e", "n">>
Es == <<"e", "s">>
Fr == <<"f", "r">>

VideoIds == {<<"a", "1">>, <<"b", "2">>}

\* byte sizes a written file may have: just below and just above the threshold
Sizes == {MinSize, MinSize + 1}

\* ------------------------------------------------------------- file names
\* _sub_path: out_dir / f"Transcript [{video_id}].{lang}.srt"
_sub_path(video_id, lang) ==
    <<"Transcript ", "[">> \o video_id \o <<"]", ".">> \o lang \o <<".", "srt">>

\* the glob pattern of the cleanup: f"Transcript [{vid}].*"
CleanupPattern(vid) == <<"Transcript ", "[">> \o vid \o <<"]", ".", "*">>

\* the glob pattern of the paths listing: f"Transcript [{vid}].*.srt"
PathsPattern(vid) == <<"Transcript ", "[">> \o vid \o <<"]", ".", "*", ".", "srt">>

\* index of the "]" that closes a character class opened at pat[1], 0 if none
\* (fnmatch: a "]" directly after "[" is a member, not the end)
ClassEnd(pat) ==
    LET J == {j \in 3..Len(pat) : pat[j] = "]"}
    IN  IF J = {} THEN 0 ELSE CHOOSE j \in J : \A k \in J : j <= k

\* Path.glob matches a name against a pattern the fnmatch way: "*" is any run
\* of characters, "[seq]" is ONE character out of seq, anything else is itself.
\* (Ranges and "!" negation are not modelled: no id of VideoIds holds "-" or "!".)
RECURSIVE fnmatch(_, _)
fnmatch(name, pat) ==
    IF pat = <<>> THEN name = <<>>
    ELSE IF Head(pat) = "*"
      THEN \E n \in 0..Len(name) : fnmatch(SubSeq(name, n + 1, Len(name)), Tail(pat))
    ELSE IF Head(pat) = "[" /\ ClassEnd(pat) # 0
      THEN /\ name # <<>>
           /\ Head(name) \in {pat[j] : j \in 2..(ClassEnd(pat) - 1)}
           /\ fnmatch(Tail(name), SubSeq(pat, ClassEnd(pat) + 1, Len(pat)))
    ELSE /\ name # <<>>
         /\ Head(name) = Head(pat)
         /\ fnmatch(Tail(name), Tail(pat))

\* a directory is a function from the names it holds to their sizes
EmptyDir == [n \in {} |-> MinSize]

Glob(dir, pat) == {n \in DOMAIN dir : fnmatch(n, pat)}

WriteFile(dir, name, size) ==
    [n \in DOMAIN dir \cup {name} |-> IF n = name THEN size ELSE dir[n]]

Unlink(dir, names) == [n \in DOMAIN dir \ names |-> dir[n]]

\* p.exists() and p.stat().st_size > 100
Acceptable(dir, name) == name \in DOMAIN dir /\ dir[name] > MinSize

\* (mutant) the two languages looked up in the opposite order
FindAnyEnReversed(dir, video_id) ==
    IF Acceptable(dir, _sub_path(video_id, En)) THEN Some(_sub_path(video_id, En))
    ELSE IF Acceptable(dir, _sub_path(video_id, EnUS)) THEN Some(_sub_path(video_id, EnUS))
    ELSE None

\* (mutant) only the en-US file is looked for
FindOnlyEnUS(dir, video_id) ==
    IF Acceptable(dir, _sub_path(video_id, EnUS)) THEN Some(_sub_path(video_id, EnUS))
    ELSE None

\* _find_any_en: the first of en-US, en whose file is acceptable
_find_any_en(dir, video_id) ==
    IF Acceptable(dir, _sub_path(video_id, EnUS)) THEN Some(_sub_path(video_id, EnUS))
    ELSE IF Acceptable(dir, _sub_path(video_id, En)) THEN Some(_sub_path(video_id, En))
    ELSE None

\* "Limpia archivos previos del mismo id": unlink whatever the glob yields
CleanupDir(dir, vid) == Unlink(dir, Glob(dir, CleanupPattern(vid)))

\* name.split("].", 1)[1].rsplit(".", 1)[0]; when "]." does not occur the
\* IndexError is swallowed and lang stays p.suffix without its dot
ParseLang(name) ==
    LET B == {j \in 1..(Len(name) - 1) : name[j] = "]" /\ name[j + 1] = "."}
    IN  IF B = {} THEN <<name[Len(name)]>>
        ELSE LET j == CHOOSE x \in B : \A y \in B : x <= y
                 rest == SubSeq(name, j + 2, Len(name))
                 D == {d \in 1..Len(rest) : rest[d] = "."}
             IN  IF D = {} THEN rest
                 ELSE SubSeq(rest, 1, (CHOOSE x \in D : \A y \in D : y <= x) - 1)

\* character order of the symbols in use (ASCII), for sorted()
Alphabet == <<"-", ".", "1", "2", "S", "Transcript ", "U", "[", "]",
              "a", "b", "e", "f", "n", "r", "s", "srt">>

Ord(c) == CHOOSE k \in 1..Len(Alphabet) : Alphabet[k] = c

RECURSIVE NameLess(_, _)
NameLess(x, y) ==
    IF x = <<>> THEN y # <<>>
    ELSE IF y = <<>> THEN FALSE
    ELSE IF Head(x) = Head(y) THEN NameLess(Tail(x), Tail(y))
    ELSE Ord(Head(x)) < Ord(Head(y))

RECURSIVE Sorted(_)
Sorted(S) ==
    IF S = {} THEN <<>>
    ELSE LET m == CHOOSE x \in S : \A y \in S \ {x} : NameLess(x, y)
         IN  <<m>> \o Sorted(S \ {m})

\* "agrega todos los .srt del id para registro"
PathsFor(dir, vid) == Sorted(Glob(dir, PathsPattern(vid)))

\* ------------------------------------------------------------ video list
WatchUrl(vid) == <<"https://www.youtube.com/watch?v=">> \o vid

ShortUrl(vid) == <<"https://youtu.be/">> \o vid

\* VideoItem
VideoItem(id, url) == [id |-> id, url |-> url]

\* lines of data/video_ids.jsonl the input is drawn from: a line with "id" and
\* no "url", a line with "video_id" and a "url", a line with neither id
JsonLines ==
    { [id |-> Some(<<"a", "1">>), video_id |-> None, url |-> None],
      [id |-> None, video_id |-> Some(<<"b", "2">>), url |-> Some(ShortUrl(<<"b", "2">>))],
      [id |-> None, video_id |-> None, url |-> Some(ShortUrl(<<"a", "1">>))] }

\* lines of the flat-playlist output: "<id>\t<url>" or a line without a tab
StdoutLines == { <<(<<"a", "1">>), WatchUrl(<<"a", "1">>)>>, <<(<<"W">>)>> }

SeqsUpTo(S, n) == UNION {[1..m -> S] : m \in 0..n}

Take(s, n) == SubSeq(s, 1, IF n < Len(s) THEN n ELSE Len(s))

\* rec.get("id") or rec.get("video_id"); url or the watch url built from the id
RECURSIVE ItemsOfFile(_)
ItemsOfFile(lines) ==
    IF lines = <<>> THEN <<>>
    ELSE LET rec == Head(lines)
             vid == IF rec.id # None THEN rec.id ELSE rec.video_id
             url == IF rec.url # None THEN rec.url
                    ELSE IF vid # None THEN Some(WatchUrl(vid[1])) ELSE None
         IN  (IF vid # None /\ url # None THEN <<VideoItem(vid[1], url[1])>> ELSE <<>>)
             \o ItemsOfFile(Tail(lines))

\* parts = line.strip().split("\t"); kept when len(parts) == 2
RECURSIVE ItemsOfStdout(_)
ItemsOfStdout(lines) ==
    IF lines = <<>> THEN <<>>
    ELSE (IF Len(Head(lines)) = 2
            THEN <<VideoItem(Head(lines)[1], Head(lines)[2])>> ELSE <<>>)
         \o ItemsOfStdout(Tail(lines))

\* _load_video_list: idsFile is None when IDS_JSONL does not exist; channel is
\* whether CHANNEL_URL is set; proc is the outcome of the flat-playlist call
_load_video_list(idsFile, channel, proc, MAX_VIDEOS) ==
    LET items == IF idsFile # None THEN ItemsOfFile(idsFile[1]) ELSE <<>>
        listed == IF channel /\ proc.returncode = 0 /\ proc.stdout # <<>>
                    THEN ItemsOfStdout(proc.stdout) ELSE <<>>
    IN  IF items # <<>>
          THEN (IF MAX_VIDEOS > 0 THEN Take(items, MAX_VIDEOS) ELSE items)
          ELSE (IF MAX_VIDEOS > 0 /\ listed # <<>> THEN Take(listed, MAX_VIDEOS) ELSE listed)

\* (mutant) the empty list is not noticed
NoVideosNever(vs) == FALSE

\* main: "if not videos: ... return 1"
NoVideos(vs) == vs = <<>>

\* ---------------------------------------------------------------- records
\* (mutant) the record lists every file of the directory, found or not
MakeRecordListsDir(video, found, dir) ==
    [ id |-> video.id, url |-> video.url,
      status |-> IF found # None THEN "ok" ELSE "missing",
      lang |-> IF found # None THEN Some(ParseLang(found[1])) ELSE None,
      paths |-> Sorted(DOMAIN dir),
      dir |-> video.id ]

\* the dict _download_subs_for_video returns
MakeRecord(video, found, dir) ==
    [ id |-> video.id, url |-> video.url,
      status |-> IF found # None THEN "ok" ELSE "missing",
      lang |-> IF found # None THEN Some(ParseLang(found[1])) ELSE None,
      paths |-> IF found # None THEN PathsFor(dir, video.id) ELSE <<>>,
      dir |-> video.id ]

\* (mutant) the error record without the exception's message
ErrorRecordNoMessage(video, msg) ==
    [ id |-> video.id, url |-> video.url, status |-> "error", error |-> "",
      paths |-> <<>>, dir |-> video.id ]

\* the dict main appends in "except Exception as e"
ErrorRecord(video, msg) ==
    [ id |-> video.id, url |-> video.url, status |-> "error", error |-> msg,
      paths |-> <<>>, dir |-> video.id ]

\* (mutant) only the records of videos that were resolved are written
IndexContentNoErrors(recs) == SelectSeq(recs, LAMBDA r : r.status # "error")

\* (mutant) the records are written last first
IndexContentReversed(recs) == [j \in 1..Len(recs) |-> recs[Len(recs) + 1 - j]]

\* what main writes to INDEX_JSONL: one line per accumulated record
IndexContent(recs) == recs

\* (mutant) main fails when no video is ok or one ended in error
ExitStatusStrict(recs) ==
    LET ok == Cardinality({j \in 1..Len(recs) : recs[j].status = "ok"})
        errors == Cardinality({j \in 1..Len(recs) : recs[j].status = "error"})
    IN  IF ok > 0 /\ errors = 0 THEN 0 ELSE 1

\* main's return value after the index is written:
\* "return 0 if ok > 0 and errors == 0 else 0"
ExitStatus(recs) ==
    LET ok == Cardinality({j \in 1..Len(recs) : recs[j].status = "ok"})
        errors == Cardinality({j \in 1..Len(recs) : recs[j].status = "error"})
    IN  IF ok > 0 /\ errors = 0 THEN 0 ELSE 0

\* ------------------------------------------------------ external behaviour
\* what one extractor run may leave behind: nothing, an en-US file at the
\* threshold, an acceptable en file, an acceptable en-US file, or both
ExtWrites ==
    { {}, {<<EnUS, MinSize>>}, {<<En, MinSize + 1>>}, {<<EnUS, MinSize + 1>>},
      {<<EnUS, MinSize + 1>>, <<En, MinSize + 1>>} }

RunExtractor(dir, vid, W) ==
    LET written == {_sub_path(vid, w[1]) : w \in W}
    IN  [n \in DOMAIN dir \cup written |->
            IF n \in written
              THEN (CHOOSE w \in W : _sub_path(vid, w[1]) = n)[2]
              ELSE dir[n]]

WritesAcceptable(W) == \E w \in W : w[2] > MinSize

\* messages an exception may carry
ErrMsgs == {"HTTP Error 429", "No such file or directory: 'yt-dlp'"}

\* tracks of a listing: two manually-authored ones and an auto-generated one
Tracks == { [is_generated |-> FALSE, language |-> Es],
            [is_generated |-> FALSE, language |-> Fr],
            [is_generated |-> TRUE, language |-> Fr] }

Listings == SeqsUpTo(Tracks, MaxTracks)

ImpersonateClients == <<"chrome", "safari15_3", "edge">>

PlayerClients == <<"ios", "android", "web_creator">>

\* (mutant) the resolver asks for en first
YtaLangsReversed == <<En, EnUS>>

YtaLangs == <<EnUS, En>>

\* (mutant) the first track of the listing, manual or not
SelectFirstTrack(L) == IF L # <<>> THEN Some(L[1]) ELSE None

\* manual > auto: the first track that is not generated, else the first
\* generated one, else none
SelectCandidate(L) ==
    LET M == {j \in 1..Len(L) : ~L[j].is_generated}
        G == {j \in 1..Len(L) : L[j].is_generated}
    IN  IF M # {} THEN Some(L[CHOOSE j \in M : \A x \in M : j <= x])
        ELSE IF G # {} THEN Some(L[CHOOSE j \in G : \A x \in G : j <= x])
        ELSE None

\* ------------------------------------------------------------------ state
VARIABLES
    pc,             \* main: "load", "loop", "cascade", "sleep", "write", "exit"
    videos,         \* main: the list _load_video_list returned
    i,              \* main: position of the for loop in videos
    index_recs,     \* main: the records accumulated so far
    indexFile,      \* INDEX_JSONL on disk: None, or Some(its records)
    exitCode,       \* None while main runs, Some(status) once it has returned
    fs,             \* SUBS_DIR: for each video id the directory SUBS_DIR / id
    cpc,            \* _download_subs_for_video: the call that comes next
    sub,            \* _download_subs_for_video: sub (None or Some(file name))
    p,              \* _download_subs_for_video: p1 / p_imp / p_pc, the process
                    \* object of the extractor run just made (None or
                    \* Some(its returncode)); dead at the next call
    k,              \* position in the client list / in the language list
    listing,        \* _fallback_yta: None or Some(the tracks listed), while in use
    candidate,      \* _fallback_yta: None or Some(the track selected), while in use
    attempts,       \* history: the external calls of the current cascade
    produced,       \* history: a call of the current cascade wrote an acceptable file
    hadStale,       \* history: the cascade found an acceptable en-US/en file on entry
    raised,         \* history: None or Some(<<call, message>>) of the exception caught
    interrupted,    \* history: None or Some(index_recs at the KeyboardInterrupt)
    touched,        \* history: a cascade has been started in this run
    indexAtStart,   \* history: indexFile when main was entered
    signals,        \* history: what each call of _fallback_yta did, in order
    stable,         \* each external call answers a video the same way every time
    memo,           \* the answers given so far to the current video (when stable)
    transcript,     \* _write_srt_file: the segments it is called with
    out_file,       \* _write_srt_file: None or Some(the characters of out_path)
    srt_pc          \* _write_srt_file: "idle", "call" (entered) or "return"

vars == << pc, videos, i, index_recs, indexFile, exitCode, fs, cpc, sub, p, k,
           listing, candidate, attempts, produced, hadStale, raised,
           interrupted, touched, indexAtStart, signals, stable, memo,
           transcript, out_file, srt_pc >>

srtVars == << transcript, out_file, srt_pc >>

mainVars == << videos, i, index_recs, indexFile, exitCode >>

historyVars == << hadStale, raised, interrupted, touched, indexAtStart, stable >>

\* an index left by an earlier run (main never reads INDEX_JSONL, so a run
\* without one differs in nothing but this value)
OldIndex ==
    << [ id |-> <<"a", "1">>, url |-> WatchUrl(<<"a", "1">>), status |-> "missing",
         lang |-> None, paths |-> <<>>, dir |-> <<"a", "1">> ] >>

NoMemo == [s \in {} |-> None]

InitCommon ==
    /\ pc = "load"
    /\ videos = <<>>
    /\ i = 1
    /\ index_recs = <<>>
    /\ indexFile = Some(OldIndex)
    /\ exitCode = None
    /\ fs = [v \in VideoIds |-> EmptyDir]
    /\ cpc = "idle"
    /\ sub = None
    /\ p = None
    /\ k = 0
    /\ listing = None
    /\ candidate = None
    /\ attempts = <<>>
    /\ produced = FALSE
    /\ hadStale = FALSE
    /\ raised = None
    /\ interrupted = None
    /\ touched = FALSE
    /\ indexAtStart = indexFile
    /\ signals = <<>>
    /\ memo = NoMemo

\* main does not call _write_srt_file with segments of its own: the files the
\* resolver writes are known to the cascade by name and size only
NoSrt == transcript = <<>> /\ out_file = None /\ srt_pc = "idle"

Init == InitCommon /\ stable = FALSE /\ NoSrt

\* the same program, every external call answering a video the same way each
\* time it is asked
InitStable == InitCommon /\ stable = TRUE /\ NoSrt

\* the video of the current iteration
Cur == videos[i]

\* the answer o of the call named label is possible
Allowed(label, o) ==
    IF ~stable THEN TRUE
    ELSE IF label \notin DOMAIN memo THEN TRUE
    ELSE memo[label] = o

\* an answer is kept only when it will be asked for again: when the next
\* iteration is about the same video id
Remember(label, o) ==
    IF stable /\ i < Len(videos) /\ videos[i + 1].id = Cur.id
      THEN [s \in DOMAIN memo \cup {label} |-> IF s = label THEN o ELSE memo[s]]
      ELSE memo

\* locals of _download_subs_for_video are gone once it is left
DropLocals ==
    /\ cpc' = "idle"
    /\ sub' = None
    /\ p' = None
    /\ k' = 0
    /\ listing' = None
    /\ candidate' = None

\* the answers given to a video are kept for the next iteration when that one
\* is about the same video id
KeepMemo(m) ==
    IF stable /\ i < Len(videos) /\ videos[i + 1].id = Cur.id THEN m ELSE NoMemo

\* the history of a cascade is dropped when main moves on
DropHistory ==
    /\ attempts' = <<>>
    /\ signals' = <<>>
    /\ produced' = FALSE
    /\ hadStale' = FALSE
    /\ raised' = None

\* ------------------------------------------------------------------- main
\* videos = _load_video_list(); if not videos: return 1
LoadVideoList ==
    /\ pc = "load"
    /\ \E idsFile \in {None} \cup {Some(f) : f \in SeqsUpTo(JsonLines, MaxVideos)},
          channel \in BOOLEAN,
          returncode \in {0, 1},
          stdout \in SeqsUpTo(StdoutLines, MaxVideos),
          MAX_VIDEOS \in 0..MaxVideos :
            LET vs == _load_video_list(idsFile, channel,
                        [returncode |-> returncode, stdout |-> stdout], MAX_VIDEOS)
            IN  /\ videos' = vs
                /\ IF NoVideos(vs)
                     THEN pc' = "exit" /\ exitCode' = Some(1)
                     ELSE pc' = "loop" /\ exitCode' = exitCode
    /\ UNCHANGED << i, index_recs, indexFile, fs, cpc, sub, p, k, listing,
                    candidate, attempts, produced, signals, memo >>
    /\ UNCHANGED historyVars
    /\ UNCHANGED srtVars

\* for v in videos: try: rec = _download_subs_for_video(v), up to the first
\* extractor run: out_dir is made and the files the cleanup glob yields are deleted
BeginCascade ==
    /\ pc = "loop"
    /\ i <= Len(videos)
    /\ pc' = "cascade"
    /\ cpc' = "direct"
    /\ hadStale' = (_find_any_en(fs[Cur.id], Cur.id) # None)
    /\ fs' = [fs EXCEPT ![Cur.id] = CleanupDir(@, Cur.id)]
    /\ sub' = None
    /\ p' = None
    /\ k' = 0
    /\ listing' = None
    /\ candidate' = None
    /\ attempts' = <<>>
    /\ produced' = FALSE
    /\ raised' = None
    /\ touched' = TRUE
    /\ signals' = <<>>
    /\ UNCHANGED << mainVars, interrupted, indexAtStart, stable, memo >>
    /\ UNCHANGED srtVars

\* ------------------------------------------- _download_subs_for_video
\* (mutant) an attempt whose process exits non-zero counts as failed
FailedOnExit(returncode, found) == found = None \/ returncode # 0

\* "if not sub" (and "if sub: break"): the cascade goes on after an attempt
\* exactly when no acceptable file was found; the process object is not read
Failed(returncode, found) == found = None

\* one run of the extractor (_run never raises on a non-zero exit: check=False),
\* followed by sub = _find_any_en(out_dir, vid); onFail is the call that comes
\* next when no acceptable file is there
ExtractorStep(label, W, rc, onFailCpc, onFailK) ==
    /\ rc \in {0, 1}
    /\ p' = Some(rc)
    /\ Allowed(label, [kind |-> "ret", w |-> W])
    /\ memo' = Remember(label, [kind |-> "ret", w |-> W])
    /\ fs' = [fs EXCEPT ![Cur.id] = RunExtractor(@, Cur.id, W)]
    /\ sub' = _find_any_en(fs'[Cur.id], Cur.id)
    /\ attempts' = Append(attempts, label)
    /\ produced' = (produced \/ WritesAcceptable(W))
    /\ IF Failed(rc, sub')
         THEN cpc' = onFailCpc /\ k' = onFailK
         ELSE cpc' = "done" /\ k' = k
    /\ UNCHANGED << pc, mainVars, listing, candidate, signals >>
    /\ UNCHANGED historyVars
    /\ UNCHANGED srtVars

\* 1) yt-dlp normal: p1 = _run(base + [url])
Direct ==
    /\ pc = "cascade"
    /\ cpc = "direct"
    /\ \E W \in ExtWrites, rc \in {0, 1} : ExtractorStep("direct", W, rc, "probe1", 0)

\* "if not sub and _supports_impersonate()": the probe is asked
Probe1 ==
    /\ pc = "cascade"
    /\ cpc = "probe1"
    /\ \E b \in BOOLEAN :
          /\ Allowed("probe1", [kind |-> "ret", b |-> b])
          /\ memo' = Remember("probe1", [kind |-> "ret", b |-> b])
          /\ IF b THEN cpc' = "impersonate" /\ k' = 1
                  ELSE cpc' = "probe2" /\ k' = 0
    /\ attempts' = Append(attempts, "probe")
    /\ p' = None
    /\ UNCHANGED << pc, mainVars, fs, sub, listing, candidate, produced,
                    signals >>
    /\ UNCHANGED historyVars
    /\ UNCHANGED srtVars

\* 2) for client in ["chrome", "safari15_3", "edge"]: run, look, break on a file
Impersonate ==
    /\ pc = "cascade"
    /\ cpc = "impersonate"
    /\ \E W \in ExtWrites, rc \in {0, 1} :
          IF k < Len(ImpersonateClients)
            THEN ExtractorStep(ImpersonateClients[k], W, rc, "impersonate", k + 1)
            ELSE ExtractorStep(ImpersonateClients[k], W, rc, "probe2", 0)

\* "if not sub and not _supports_impersonate()": the probe is asked again
Probe2 ==
    /\ pc = "cascade"
    /\ cpc = "probe2"
    /\ \E b \in BOOLEAN :
          /\ Allowed("probe2", [kind |-> "ret", b |-> b])
          /\ memo' = Remember("probe2", [kind |-> "ret", b |-> b])
          /\ IF ~b THEN cpc' = "alt_client" /\ k' = 1
                   ELSE cpc' = "yta" /\ k' = 0
    /\ attempts' = Append(attempts, "probe")
    /\ p' = None
    /\ UNCHANGED << pc, mainVars, fs, sub, listing, candidate, produced,
                    signals >>
    /\ UNCHANGED historyVars
    /\ UNCHANGED srtVars

\* 3) for pc in ["ios", "android", "web_creator"]: run, look, break on a file
AltClient ==
    /\ pc = "cascade"
    /\ cpc = "alt_client"
    /\ \E W \in ExtWrites, rc \in {0, 1} :
          IF k < Len(PlayerClients)
            THEN ExtractorStep(PlayerClients[k], W, rc, "alt_client", k + 1)
            ELSE ExtractorStep(PlayerClients[k], W, rc, "yta", 0)

\* the call that comes next, as the history and the memo name it
CallLabel ==
    IF cpc = "direct" THEN "direct"
    ELSE IF cpc = "impersonate" THEN ImpersonateClients[k]
    ELSE IF cpc = "alt_client" THEN PlayerClients[k]
    ELSE cpc

AttemptLabel == IF cpc \in {"probe1", "probe2"} THEN "probe" ELSE CallLabel

\* an extractor run or a probe raises (subprocess.run cannot start yt-dlp, ...):
\* the exception leaves _download_subs_for_video, which has no handler (so
\* would one that left _fallback_yta, cpc = "raise"), and main's
\* "except Exception" appends the error record and goes on with the next video
CallRaises ==
    /\ pc = "cascade"
    /\ cpc \in {"direct", "probe1", "impersonate", "probe2", "alt_client", "raise"}
    /\ \E msg \in ErrMsgs :
          /\ Allowed(CallLabel, [kind |-> "raise", msg |-> msg])
          /\ memo' = KeepMemo(Remember(CallLabel, [kind |-> "raise", msg |-> msg]))
          /\ index_recs' = Append(index_recs, ErrorRecord(Cur, msg))
          /\ raised' = Some(<<AttemptLabel, msg>>)
    /\ attempts' = Append(attempts, AttemptLabel)
    /\ pc' = "loop"
    /\ i' = i + 1
    /\ DropLocals
    /\ UNCHANGED << videos, indexFile, exitCode, fs, produced, hadStale,
                    interrupted, touched, indexAtStart, signals, stable >>
    /\ UNCHANGED srtVars

\* ---------------------------------------------------------- _fallback_yta
\* what a call of the transcript API may do: signal NoTranscriptFound or
\* TranscriptsDisabled ("nosub"), raise anything else ("error", which also
\* stands for _write_srt_file raising before it opens the file), or return
\* segments that _write_srt_file turns into a file of some size
FetchOutcomes ==
    {[kind |-> "nosub"], [kind |-> "error"]} \cup {[kind |-> "ret", size |-> s] : s \in Sizes}

ListOutcomes ==
    {[kind |-> "nosub"], [kind |-> "error"]} \cup {[kind |-> "ret", listing |-> L] : L \in Listings}

\* the file the original-language fetch writes:
\* out_dir / f"Transcript [{video_id}].{candidate.language}.srt"
OriginalPath(video_id, track) == _sub_path(video_id, track.language)

\* (mutant) an error inside _fallback_yta leaves it
OnResolverErrorRaise == "raise"

\* the outermost handler of _fallback_yta: "except Exception: return None"
OnResolverError == "done"

\* 4) "if not sub: sub_path = _fallback_yta(vid, out_dir)": the import
YtaImport ==
    /\ pc = "cascade"
    /\ cpc = "yta"
    /\ \E ok \in BOOLEAN :
          /\ Allowed("import", [kind |-> "ret", b |-> ok])
          /\ memo' = Remember("import", [kind |-> "ret", b |-> ok])
          /\ IF ok THEN cpc' = "get_transcript" /\ k' = 1
                   ELSE cpc' = OnResolverError /\ k' = 0
          /\ signals' = Append(signals, IF ok THEN "ret" ELSE "error")
    /\ attempts' = Append(attempts, "yta")
    /\ p' = None
    /\ UNCHANGED << pc, mainVars, fs, sub, listing, candidate, produced >>
    /\ UNCHANGED historyVars
    /\ UNCHANGED srtVars

GetLabel(n) == IF n = 1 THEN "get_transcript en-US" ELSE "get_transcript en"

\* for lang in ["en-US", "en"]: get_transcript, write, return the file when it
\* is acceptable; NoTranscriptFound / TranscriptsDisabled: next language
YtaGet ==
    /\ pc = "cascade"
    /\ cpc = "get_transcript"
    /\ \E o \in FetchOutcomes :
          LET out == _sub_path(Cur.id, YtaLangs[k])
              good == o.kind = "ret" /\ o.size > MinSize
          IN  /\ Allowed(GetLabel(k), o)
              /\ memo' = Remember(GetLabel(k), o)
              /\ fs' = IF o.kind = "ret"
                         THEN [fs EXCEPT ![Cur.id] = WriteFile(@, out, o.size)]
                         ELSE fs
              /\ produced' = (produced \/ good)
              /\ IF good THEN sub' = Some(out) /\ cpc' = "done" /\ k' = 0
                 ELSE IF o.kind = "error"
                   THEN sub' = None /\ cpc' = OnResolverError /\ k' = 0
                 ELSE IF k < Len(YtaLangs)
                   THEN sub' = None /\ cpc' = "get_transcript" /\ k' = k + 1
                   ELSE sub' = None /\ cpc' = "list_transcripts" /\ k' = 0
              /\ signals' = Append(signals, o.kind)
    /\ attempts' = Append(attempts, GetLabel(k))
    /\ UNCHANGED << pc, mainVars, p, listing, candidate >>
    /\ UNCHANGED historyVars
    /\ UNCHANGED srtVars

\* listing = list_transcripts(video_id), then the choice of the candidate
YtaList ==
    /\ pc = "cascade"
    /\ cpc = "list_transcripts"
    /\ \E o \in ListOutcomes :
          /\ Allowed("list_transcripts", o)
          /\ memo' = Remember("list_transcripts", o)
          /\ IF o.kind = "ret"
               THEN /\ listing' = Some(o.listing)
                    /\ candidate' = SelectCandidate(o.listing)
                    /\ cpc' = IF candidate' # None THEN "translate" ELSE "done"
               ELSE /\ listing' = None
                    /\ candidate' = None
                    /\ cpc' = IF o.kind = "error" THEN OnResolverError ELSE "done"
          /\ signals' = Append(signals, o.kind)
    /\ attempts' = Append(attempts, "list_transcripts")
    /\ UNCHANGED << pc, mainVars, fs, sub, p, k, produced >>
    /\ UNCHANGED historyVars
    /\ UNCHANGED srtVars

TranslateOutcomes == FetchOutcomes \ {[kind |-> "nosub"]}

\* translated = candidate.translate("en").fetch(); written as the en file
YtaTranslate ==
    /\ pc = "cascade"
    /\ cpc = "translate"
    /\ \E o \in TranslateOutcomes :
          LET out == _sub_path(Cur.id, En)
              good == o.kind = "ret" /\ o.size > MinSize
          IN  /\ Allowed("translate", o)
              /\ memo' = Remember("translate", o)
              /\ fs' = IF o.kind = "ret"
                         THEN [fs EXCEPT ![Cur.id] = WriteFile(@, out, o.size)]
                         ELSE fs
              /\ produced' = (produced \/ good)
              /\ sub' = IF good THEN Some(out) ELSE None
              /\ cpc' = IF o.kind = "error" THEN "fetch" ELSE "done"
              /\ candidate' = IF o.kind = "error" THEN candidate ELSE None
              /\ signals' = Append(signals, o.kind)
    /\ listing' = None
    /\ attempts' = Append(attempts, "translate")
    /\ UNCHANGED << pc, mainVars, p, k >>
    /\ UNCHANGED historyVars
    /\ UNCHANGED srtVars

\* "except Exception": fetched = candidate.fetch(), written under the
\* candidate's own language
YtaFetch ==
    /\ pc = "cascade"
    /\ cpc = "fetch"
    /\ \E o \in TranslateOutcomes :
          LET out == OriginalPath(Cur.id, candidate[1])
              good == o.kind = "ret" /\ o.size > MinSize
          IN  /\ Allowed("fetch", o)
              /\ memo' = Remember("fetch", o)
              /\ fs' = IF o.kind = "ret"
                         THEN [fs EXCEPT ![Cur.id] = WriteFile(@, out, o.size)]
                         ELSE fs
              /\ produced' = (produced \/ good)
              /\ sub' = IF good THEN Some(out) ELSE None
              /\ signals' = Append(signals, o.kind)
    /\ cpc' = "done"
    /\ candidate' = None
    /\ attempts' = Append(attempts, "fetch")
    /\ UNCHANGED << pc, mainVars, p, k, listing >>
    /\ UNCHANGED historyVars
    /\ UNCHANGED srtVars

\* ------------------------------------------------------------ back in main
\* status, lang and paths are worked out, the dict is returned and
\* index_recs.append(rec) runs
Finish ==
    /\ pc = "cascade"
    /\ cpc = "done"
    /\ index_recs' = Append(index_recs, MakeRecord(Cur, sub, fs[Cur.id]))
    /\ pc' = "sleep"
    /\ DropLocals
    /\ UNCHANGED << videos, i, indexFile, exitCode, fs, attempts, produced,
                    signals, memo >>
    /\ UNCHANGED historyVars
    /\ UNCHANGED srtVars

\* time.sleep(1.0), then the next iteration
Sleep ==
    /\ pc = "sleep"
    /\ pc' = "loop"
    /\ i' = i + 1
    /\ DropHistory
    /\ memo' = KeepMemo(memo)
    /\ UNCHANGED << videos, index_recs, indexFile, exitCode, fs, cpc, sub, p, k,
                    listing, candidate, interrupted, touched, indexAtStart,
                    stable >>
    /\ UNCHANGED srtVars

\* (mutant) the interrupt leaves main at once
AfterBreakReturn == "exit"

\* where "except KeyboardInterrupt: ... break" continues
AfterBreak == "write"

\* a KeyboardInterrupt inside the try block: during the cascade (no handler of
\* _download_subs_for_video or _fallback_yta catches it) or during the sleep
Interrupt ==
    /\ pc \in {"cascade", "sleep"}
    /\ pc' = AfterBreak
    /\ interrupted' = Some(index_recs)
    /\ DropLocals
    /\ DropHistory
    /\ memo' = NoMemo
    /\ UNCHANGED << mainVars, fs, touched, indexAtStart, stable >>
    /\ UNCHANGED srtVars

\* after the loop: the index is rewritten, the summary printed, main returns
WriteIndex ==
    /\ pc \in {"loop", "write"}
    /\ pc = "loop" => i > Len(videos)
    /\ indexFile' = Some(IndexContent(index_recs))
    /\ exitCode' = Some(ExitStatus(index_recs))
    /\ pc' = "exit"
    /\ DropHistory
    /\ memo' = NoMemo
    /\ UNCHANGED << videos, i, index_recs, fs, cpc, sub, p, k, listing,
                    candidate, interrupted, touched, indexAtStart, stable >>
    /\ UNCHANGED srtVars

Next ==
    \/ LoadVideoList
    \/ BeginCascade
    \/ Direct
    \/ Probe1
    \/ Impersonate
    \/ Probe2
    \/ AltClient
    \/ CallRaises
    \/ YtaImport
    \/ YtaGet
    \/ YtaList
    \/ YtaTranslate
    \/ YtaFetch
    \/ Finish
    \/ Sleep
    \/ Interrupt
    \/ WriteIndex

Spec == Init /\ [][Next]_vars

SpecStable == InitStable /\ [][Next]_vars

\* ------------------------------------------------------- _write_srt_file
NL == "\n"

Digits == <<"0", "1", "2", "3", "4", "5", "6", "7", "8", "9">>

\* str(n) of a natural number
RECURSIVE Str(_)
Str(n) == IF n < 10 THEN <<Digits[n + 1]>>
          ELSE Str(n \div 10) \o <<Digits[(n % 10) + 1]>>

\* f"{n:0wd}"
RECURSIVE Pad(_, _)
Pad(digits, w) == IF Len(digits) >= w THEN digits ELSE Pad(<<"0">> \o digits, w)

\* fmt_time; t is counted in half seconds, which binary floats hold exactly
fmt_time(t) ==
    LET whole == t \div 2
        ms == (t % 2) * 500
        h == whole \div 3600
        m == (whole % 3600) \div 60
        sec == whole % 60
    IN  Pad(Str(h), 2) \o <<":">> \o Pad(Str(m), 2) \o <<":">> \o Pad(Str(sec), 2)
          \o <<",">> \o Pad(Str(ms), 3)

\* str.replace("\n", " ")
Flatten(text) == [j \in 1..Len(text) |-> IF text[j] = NL THEN " " ELSE text[j]]

Whitespace == {" ", NL}

\* str.strip()
Strip(text) ==
    LET I == {j \in 1..Len(text) : text[j] \notin Whitespace}
    IN  IF I = {} THEN <<>>
        ELSE SubSeq(text, CHOOSE a \in I : \A b \in I : a <= b,
                          CHOOSE a \in I : \A b \in I : b <= a)

\* "\n".join(lines)
RECURSIVE Join(_)
Join(lines) ==
    IF lines = <<>> THEN <<>>
    ELSE IF Len(lines) = 1 THEN lines[1]
    ELSE lines[1] \o <<NL>> \o Join(Tail(lines))

\* (mutant) a dropped segment uses up its index
RECURSIVE SrtLinesGap(_, _)
SrtLinesGap(items, idx) ==
    IF items = <<>> THEN <<>>
    ELSE LET item == Head(items)
             text == Strip(Flatten(item.text))
         IN  IF text = <<>> THEN SrtLinesGap(Tail(items), idx + 1)
             ELSE << Str(idx),
                     fmt_time(item.start) \o <<" --> ">>
                         \o fmt_time(item.start + item.duration),
                     text, <<>> >> \o SrtLinesGap(Tail(items), idx + 1)

\* the loop of _write_srt_file: the list "lines" from item on, idx being the
\* next index
RECURSIVE SrtLines(_, _)
SrtLines(items, idx) ==
    IF items = <<>> THEN <<>>
    ELSE LET item == Head(items)
             text == Strip(Flatten(item.text))
         IN  IF text = <<>> THEN SrtLines(Tail(items), idx)
             ELSE << Str(idx),
                     fmt_time(item.start) \o <<" --> ">>
                         \o fmt_time(item.start + item.duration),
                     text, <<>> >> \o SrtLines(Tail(items), idx + 1)

\* content = "\n".join(lines).strip() + "\n"
SrtContent(items) == Strip(Join(SrtLines(items, 1))) \o <<NL>>

\* the values of item.get("text") or "": missing or empty, blank, a newline
\* only, a word, two lines, a word inside blanks
Texts ==
    { <<>>, <<" ">>, <<NL>>, <<"a">>, <<"a", NL, "b">>, <<" ", "a", " ">> }

\* start times in half seconds: 0 s and 1 h 1 min 1.5 s
Starts == {0, 7323}

\* durations in half seconds
Durations == {3}

Segments ==
    { [text |-> t, start |-> b, duration |-> d] :
          t \in Texts, b \in Starts, d \in Durations }

\* what out_path may hold before the call: no file, or a longer file
OldFiles == { None, Some(<<"9", NL, "o", "l", "d", NL, NL, "x", NL, "y", NL, "z", NL>>) }

\* _write_srt_file has been called with some segments and some destination
InitSrt ==
    /\ InitCommon
    /\ stable = FALSE
    /\ transcript \in SeqsUpTo(Segments, MaxSegs)
    /\ out_file \in OldFiles
    /\ srt_pc = "call"

\* _write_srt_file: the lines are built, joined, and written with open(.., "w")
WriteSrtFile ==
    /\ srt_pc = "call"
    /\ out_file' = Some(SrtContent(transcript))
    /\ srt_pc' = "return"
    /\ UNCHANGED << pc, mainVars, fs, cpc, sub, p, k, listing, candidate, attempts,
                    produced, signals, memo, transcript >>
    /\ UNCHANGED historyVars

NextSrt == WriteSrtFile

SpecSrt == InitSrt /\ [][NextSrt]_vars

\* ============================================================== claims
LastRec == index_recs[Len(index_recs)]

ExtractorLabels ==
    {"direct"} \cup {ImpersonateClients[n] : n \in 1..Len(ImpersonateClients)}
               \cup {PlayerClients[n] : n \in 1..Len(PlayerClients)}

\* C1: when main has run to its end over a non-empty video list without an
\* interrupt, the index holds exactly one record for each video of the list,
\* in the list's order, and each status is ok, missing or error, whatever the
\* external calls did (exceptions included).
C1_OneRecordPerVideo ==
    (pc = "exit" /\ videos # <<>> /\ interrupted = None) =>
        /\ indexFile # None
        /\ Len(indexFile[1]) = Len(videos)
        /\ \A j \in 1..Len(videos) :
              /\ indexFile[1][j].id = videos[j].id
              /\ indexFile[1][j].status \in {"ok", "missing", "error"}

\* C1 witness: a finished run over two videos, the first ended by an
\* exception and the second resolved.
C1_Witness ==
    /\ pc = "exit"
    /\ interrupted = None
    /\ Len(videos) = 2
    /\ Len(indexFile[1]) = 2
    /\ indexFile[1][1].status = "error"
    /\ indexFile[1][2].status = "ok"

\* C2: a record returned with status ok lists in paths a file that exists in
\* the video's directory, is larger than 100 bytes and is named for the
\* record's lang.
C2_OkHasAcceptablePath ==
    (pc = "sleep" /\ LastRec.status = "ok") =>
        \E j \in 1..Len(LastRec.paths) :
            /\ Acceptable(fs[LastRec.id], LastRec.paths[j])
            /\ LastRec.paths[j] = _sub_path(LastRec.id, LastRec.lang[1])

\* C3: acceptable en-US/en files left by an earlier cascade of the same video
\* are gone before the first fetch, and when no call of the current cascade
\* writes an acceptable file the status is missing.
C3_NoFalseOkFromStale ==
    /\ (pc = "cascade" /\ cpc = "direct") => _find_any_en(fs[Cur.id], Cur.id) = None
    /\ (pc = "sleep" /\ hadStale /\ ~produced) => LastRec.status = "missing"

\* C4: two cascades in a row for the same video, every external call
\* answering the same both times, return the same status and the same lang.
C4_Idempotent ==
    (/\ stable
     /\ pc = "sleep"
     /\ i > 1
     /\ videos[i - 1].id = Cur.id
     /\ index_recs[i - 1].status # "error") =>
        /\ LastRec.status = index_recs[i - 1].status
        /\ LastRec.lang = index_recs[i - 1].lang

\* C5: when acceptable files for both en-US and en are there after an
\* extractor attempt the cascade takes the en-US file and the record's lang is
\* en-US; a record carries lang en only when no acceptable en-US file exists.
C5_TieBreak ==
    /\ (/\ pc = "cascade"
        /\ cpc = "done"
        /\ attempts # <<>>
        /\ attempts[Len(attempts)] \in ExtractorLabels
        /\ Acceptable(fs[Cur.id], _sub_path(Cur.id, EnUS))
        /\ Acceptable(fs[Cur.id], _sub_path(Cur.id, En)))
          => sub = Some(_sub_path(Cur.id, EnUS))
    /\ (/\ pc = "sleep"
        /\ Acceptable(fs[LastRec.id], _sub_path(LastRec.id, EnUS)))
          => LastRec.lang = Some(EnUS)
    /\ (/\ pc = "sleep"
        /\ LastRec.lang = Some(En))
          => ~Acceptable(fs[LastRec.id], _sub_path(LastRec.id, EnUS))

\* C5 witness: a record returned after an extractor attempt with acceptable
\* files for both languages in the directory, tagged en-US.
C5_Witness ==
    /\ pc = "sleep"
    /\ attempts[Len(attempts)] \in ExtractorLabels
    /\ Acceptable(fs[LastRec.id], _sub_path(LastRec.id, EnUS))
    /\ Acceptable(fs[LastRec.id], _sub_path(LastRec.id, En))
    /\ LastRec.lang = Some(EnUS)

\* C6: from a non-empty listing the resolver selects the first manually
\* authored track in listing order when there is one, wherever it stands, and
\* the first (auto-generated) track only when there is none; from an empty
\* listing it selects nothing and returns no file.
C6_ManualFirst ==
    listing # None =>
        LET L == listing[1]
            M == {j \in 1..Len(L) : ~L[j].is_generated}
        IN  /\ L # <<>> =>
                /\ cpc = "translate"
                /\ candidate # None
                /\ M # {} => \E j \in M : /\ \A x \in M : j <= x
                                          /\ candidate[1] = L[j]
                /\ M = {} => candidate[1] = L[1]
            /\ L = <<>> => cpc = "done" /\ candidate = None /\ sub = None

\* C6 witness: a listing whose first track is auto-generated and whose second
\* is manual, the manual one selected.
C6_Witness ==
    /\ cpc = "translate"
    /\ listing # None
    /\ Len(listing[1]) = 2
    /\ listing[1][1].is_generated
    /\ ~listing[1][2].is_generated
    /\ candidate = Some(listing[1][2])

\* C7: a cascade that returns has status ok exactly when one of its calls
\* produced an acceptable file, and status missing when none did.
C7_OkIffProduced ==
    pc = "sleep" =>
        /\ (LastRec.status = "ok") <=> produced
        /\ ~produced => LastRec.status = "missing"

\* C8: an exception raised by a call of a video's cascade gives that video a
\* record with status error, the exception's message and empty paths; the
\* raising call is the last call made for that video; every later video of the
\* list still gets its own record.
C8_ErrorIsolation ==
    /\ raised # None =>
          /\ pc = "loop"
          /\ cpc = "idle"
          /\ Len(index_recs) = i - 1
          /\ LastRec.id = videos[i - 1].id
          /\ LastRec.status = "error"
          /\ LastRec.error = raised[1][2]
          /\ LastRec.paths = <<>>
          /\ attempts[Len(attempts)] = raised[1][1]
    /\ (pc = "exit" /\ interrupted = None) =>
          \A j \in 1..Len(index_recs) :
              index_recs[j].status = "error" =>
                  \A m \in (j + 1)..Len(videos) :
                      /\ m <= Len(index_recs)
                      /\ index_recs[m].id = videos[m].id

\* C8 witness: a finished run whose first video ended in error and whose
\* second video was processed to status missing.
C8_Witness ==
    /\ pc = "exit"
    /\ interrupted = None
    /\ Len(index_recs) = 2
    /\ index_recs[1].status = "error"
    /\ index_recs[1].paths = <<>>
    /\ index_recs[2].status = "missing"

\* C9: after a KeyboardInterrupt during a cascade or during the pause the loop
\* is over, no record is added or lost, and the index file that main writes
\* holds every record accumulated before the interrupt.
C9_InterruptKeepsIndex ==
    interrupted # None =>
        /\ pc \in {"write", "exit"}
        /\ cpc = "idle"
        /\ index_recs = interrupted[1]
        /\ pc = "exit" => indexFile = Some(index_recs)

\* C9 witness: a run over two videos interrupted after the first record, the
\* index written with that one record.
C9_Witness ==
    /\ pc = "exit"
    /\ interrupted # None
    /\ Len(videos) = 2
    /\ Len(index_recs) = 1
    /\ indexFile = Some(index_recs)

\* C10: when the video list resolves to no video, main returns a non-zero
\* status with no cascade started (no extractor, probe or resolver call), the
\* subtitle directories and the index file as they were.
C10_NoVideosAbort ==
    (pc # "load" /\ videos = <<>>) =>
        /\ pc = "exit"
        /\ exitCode # None
        /\ exitCode[1] # 0
        /\ ~touched
        /\ attempts = <<>>
        /\ fs = [v \in VideoIds |-> EmptyDir]
        /\ indexFile = indexAtStart

\* C10 witness: main has returned 1 on an empty list, an index of an earlier
\* run still on disk.
C10_Witness ==
    /\ pc = "exit"
    /\ videos = <<>>
    /\ exitCode = Some(1)
    /\ indexFile = Some(OldIndex)

\* C11: main returns a non-zero status only for an empty video list; for a
\* non-empty list it returns 0 whatever the records are (all missing, all
\* error, any mix) and also when the loop was left by an interrupt.
C11_ExitZeroUnlessEmpty ==
    pc = "exit" =>
        /\ exitCode # None
        /\ exitCode[1] # 0 => videos = <<>>
        /\ videos # <<>> => exitCode = Some(0)

\* C11 witness: main has returned 0 after a run over two videos that both
\* ended in error.
C11_Witness ==
    /\ pc = "exit"
    /\ exitCode = Some(0)
    /\ interrupted = None
    /\ Len(index_recs) = 2
    /\ \A j \in 1..2 : index_recs[j].status = "error"

\* the call of _fallback_yta that signals[j] is about
ResolverCall(j) == attempts[Len(attempts) - Len(signals) + j]

\* C12 (as stated): once a call of _fallback_yta has raised an error (import,
\* get_transcript, list_transcripts, translate, fetch or the file write of
\* one of them) the resolver returns no file and the cascade ends with status
\* missing, never with status error.
C12_AnyErrorGivesMissing ==
    /\ signals # <<>> => raised = None /\ pc \in {"cascade", "sleep"}
    /\ (pc = "sleep" /\ \E j \in 1..Len(signals) : signals[j] = "error")
          => LastRec.status = "missing"

\* C12 (amended): no error of a call of _fallback_yta leaves it: a cascade
\* that entered the resolver ends with a record of status ok or missing,
\* never error. An error of the translation is followed by the fetch of the
\* original track; an error of any other call is the resolver's last call,
\* no file is returned and the status is missing.
C12_ResolverNeverRaises ==
    /\ signals # <<>> => raised = None /\ pc \in {"cascade", "sleep"}
    /\ (pc = "sleep" /\ signals # <<>>) => LastRec.status \in {"ok", "missing"}
    /\ \A j \in 1..Len(signals) :
          signals[j] = "error" =>
              IF ResolverCall(j) = "translate"
                THEN IF j < Len(signals)
                       THEN j + 1 = Len(signals) /\ ResolverCall(j + 1) = "fetch"
                       ELSE pc = "cascade" /\ cpc = "fetch"
                ELSE /\ j = Len(signals)
                     /\ pc = "cascade" => cpc = "done" /\ sub = None
                     /\ pc = "sleep" => LastRec.status = "missing"

\* C12 witness: the original-language fetch raised after the translation had
\* raised, and the record says missing.
C12_Witness ==
    /\ pc = "sleep"
    /\ Len(signals) >= 2
    /\ signals[Len(signals)] = "error"
    /\ signals[Len(signals) - 1] = "error"
    /\ attempts[Len(attempts)] = "fetch"
    /\ LastRec.status = "missing"

\* C13: every record with status missing has an empty paths list and no
\* lang, whatever files the cascade left in the video's directory (files of
\* 100 bytes or less, files of other names).
C13_MissingHasNoPaths ==
    \A j \in 1..Len(index_recs) :
        index_recs[j].status = "missing" =>
            /\ index_recs[j].paths = <<>>
            /\ index_recs[j].lang = None

\* C13 witness: a record with status missing for a video whose directory
\* holds an en-US file at the threshold and an original-language file.
C13_Witness ==
    /\ pc = "sleep"
    /\ LastRec.status = "missing"
    /\ LastRec.paths = <<>>
    /\ _sub_path(LastRec.id, EnUS) \in DOMAIN fs[LastRec.id]
    /\ fs[LastRec.id][_sub_path(LastRec.id, EnUS)] <= MinSize
    /\ _sub_path(LastRec.id, Es) \in DOMAIN fs[LastRec.id]

\* the current cascade has run an attempt of the impersonation branch
ImpersonateEntered ==
    \E j \in 1..Len(attempts), n \in 1..Len(ImpersonateClients) :
        attempts[j] = ImpersonateClients[n]

\* the current cascade has run an attempt of the alt-client branch
AltClientEntered ==
    \E j \in 1..Len(attempts), n \in 1..Len(PlayerClients) :
        attempts[j] = PlayerClients[n]

\* C14: no cascade runs attempts of both the impersonation branch and the
\* alt-client branch, and a cascade whose extractor attempts all failed has
\* run one of the two before it enters the secondary resolver, whatever the
\* two probe calls answered.
C14_ExactlyOneBranch ==
    /\ ~(ImpersonateEntered /\ AltClientEntered)
    /\ (pc = "cascade" /\ cpc = "yta") => (ImpersonateEntered \/ AltClientEntered)

\* the strategies the current cascade has attempted, in order: the extractor
\* runs and the entry of the secondary resolver
Strategies ==
    SelectSeq(attempts, LAMBDA a : a \in ExtractorLabels \cup {"yta"})

IsPrefix(s, t) == Len(s) <= Len(t) /\ s = SubSeq(t, 1, Len(s))

ImpersonateOrder == <<"direct">> \o ImpersonateClients \o <<"yta">>

AltClientOrder == <<"direct">> \o PlayerClients \o <<"yta">>

\* C15: the strategies a cascade attempts form a prefix of direct, chrome,
\* safari15_3, edge, resolver or of direct, ios, android, web_creator,
\* resolver: direct comes first and once, and the resolver only after every
\* extractor variant of one branch.
C15_AttemptOrder ==
    \/ IsPrefix(Strategies, ImpersonateOrder)
    \/ IsPrefix(Strategies, AltClientOrder)

\* C16: while a cascade still has a call ahead of it after the direct attempt
\* (a probe, an extractor attempt of either branch, the entry of the secondary
\* resolver or one of its calls), no acceptable en-US or en file exists in the
\* video's directory: the first attempt that leaves one is the last; and the
\* resolver is entered only when no call of the cascade produced a file.
C16_StopAtFirstSuccess ==
    /\ (pc = "cascade" /\ cpc \notin {"direct", "done"}) =>
          /\ ~Acceptable(fs[Cur.id], _sub_path(Cur.id, EnUS))
          /\ ~Acceptable(fs[Cur.id], _sub_path(Cur.id, En))
          /\ sub = None
    /\ (pc = "cascade" /\ cpc = "yta") => ~produced

\* C16 witness: the first impersonation attempt left an acceptable file and
\* the cascade is over with nothing attempted after it.
C16_Witness ==
    /\ pc = "cascade"
    /\ cpc = "done"
    /\ sub # None
    /\ Strategies = <<"direct", "chrome">>

\* C17: main moves on to the next video only out of the pause: every step
\* that ends a video's iteration and advances the loop is the end of
\* time.sleep, whether the cascade ended ok, missing or in error.
C17_PauseAfterEveryCascade == [][i' # i => pc = "sleep"]_vars

\* C18: whatever its exit status, an extractor run that returns leaves the
\* cascade inside _download_subs_for_video (no exception), sub is the
\* acceptable en-US/en file of the directory, and the cascade is over exactly
\* when there is one: what comes next is a function of the files alone. A
\* record returned without the resolver is the record of the directory's
\* files.
C18_ExitCodeIndependence ==
    [][ /\ (/\ pc = "cascade"
             /\ Len(attempts') = Len(attempts) + 1
             /\ attempts'[Len(attempts')] \in ExtractorLabels
             /\ raised' = None) =>
               /\ pc' = "cascade"
               /\ p' # None
               /\ sub' = _find_any_en(fs'[Cur.id], Cur.id)
               /\ (cpc' = "done") <=>
                      (\/ Acceptable(fs'[Cur.id], _sub_path(Cur.id, EnUS))
                       \/ Acceptable(fs'[Cur.id], _sub_path(Cur.id, En)))
        /\ (pc = "cascade" /\ pc' = "sleep" /\ signals = <<>>) =>
               index_recs'[Len(index_recs')] =
                   MakeRecord(Cur, _find_any_en(fs[Cur.id], Cur.id), fs[Cur.id])
      ]_vars

\* C18 witness: an extractor run has exited with a non-zero status, the file
\* it left was taken and the cascade is over, with no exception.
C18_Witness ==
    /\ pc = "cascade"
    /\ cpc = "done"
    /\ p = Some(1)
    /\ sub # None
    /\ raised = None
    /\ signals = <<>>

\* C19: once the resolver has asked for the translation of the selected
\* track and no acceptable en file has come of it (the translation raised, or
\* the en file written is 100 bytes or smaller), the original-language fetch
\* of that track is the next call; and a file the resolver returns after
\* that fetch is an acceptable file of the directory.
C19_TranslationFallback ==
    (/\ pc = "cascade"
     /\ \E j \in 1..Len(signals) : ResolverCall(j) = "translate") =>
        /\ ~Acceptable(fs[Cur.id], _sub_path(Cur.id, En)) =>
               (cpc = "fetch" \/ attempts[Len(attempts)] = "fetch")
        /\ (sub # None /\ attempts[Len(attempts)] = "fetch") =>
               Acceptable(fs[Cur.id], sub[1])

\* C20: in the secondary resolver the first direct fetch is for en-US and
\* the second for en, each written under its own language; a "no transcript"
\* or "transcripts disabled" signal for en-US is followed by the fetch for
\* en, the same signal for en by the listing of the tracks; a fetch that
\* leaves an acceptable file ends the resolver with that file, no later call.
C20_LanguageNegotiation ==
    [][ (/\ pc = "cascade"
         /\ cpc = "get_transcript"
         /\ Len(signals') = Len(signals) + 1) =>
            LET lang == IF Len(signals) = 1 THEN EnUS ELSE En
                out == _sub_path(Cur.id, lang)
                o == signals'[Len(signals')]
            IN  /\ Len(signals) \in {1, 2}
                /\ attempts'[Len(attempts')] =
                       (IF lang = EnUS THEN "get_transcript en-US"
                                       ELSE "get_transcript en")
                /\ lang = En =>
                       attempts[Len(attempts)] = "get_transcript en-US"
                /\ o = "ret" => out \in DOMAIN fs'[Cur.id]
                /\ (o = "ret" /\ Acceptable(fs'[Cur.id], out)) =>
                       cpc' = "done" /\ sub' = Some(out)
                /\ (o = "nosub" /\ lang = EnUS) =>
                       cpc' = "get_transcript" /\ sub' = None
                /\ (o = "nosub" /\ lang = En) =>
                       cpc' = "list_transcripts" /\ sub' = None
      ]_vars

\* C20 witness: en-US was signalled as not there, the fetch for en left an
\* acceptable file and the resolver is over with that file.
C20_Witness ==
    /\ pc = "cascade"
    /\ cpc = "done"
    /\ signals = <<"ret", "nosub", "ret">>
    /\ attempts[Len(attempts)] = "get_transcript en"
    /\ sub = Some(_sub_path(Cur.id, En))

\* the segments of the transcript that hold a character other than blank and
\* newline, in input order
KeptSegments ==
    SelectSeq(transcript,
              LAMBDA it : \E j \in 1..Len(it.text) : it.text[j] \notin {" ", NL})

\* the lines of a file, each one ended by a newline
RECURSIVE SplitLines(_, _)
SplitLines(chars, cur) ==
    IF chars = <<>> THEN (IF cur = <<>> THEN <<>> ELSE <<cur>>)
    ELSE IF Head(chars) = NL THEN <<cur>> \o SplitLines(Tail(chars), <<>>)
    ELSE SplitLines(Tail(chars), Append(cur, Head(chars)))

\* C21: after _write_srt_file the destination holds exactly one block per
\* segment whose text is not empty after flattening and trimming, in input
\* order: block j is the index j (1, 2, ..., k, no gap), the time line of the
\* j-th kept segment and its one-line text, blocks separated by one empty
\* line; nothing of the file's earlier content is left.
C21_SrtNumbering ==
    srt_pc = "return" =>
        LET L == SplitLines(out_file[1], <<>>)
            K == KeptSegments
            n == Len(K)
        IN  IF n = 0 THEN L = << <<>> >>
            ELSE /\ Len(L) = 4 * n - 1
                 /\ \A j \in 1..n :
                       /\ L[4 * j - 3] = <<Digits[j + 1]>>
                       /\ L[4 * j - 2] = fmt_time(K[j].start) \o <<" --> ">>
                                           \o fmt_time(K[j].start + K[j].duration)
                       /\ L[4 * j - 1] = Strip(Flatten(K[j].text))
                       /\ j < n => L[4 * j] = <<>>

\* C21 witness: three segments, the middle one blank, written over a longer
\* file: two blocks numbered 1 and 2.
C21_Witness ==
    /\ srt_pc = "return"
    /\ Len(transcript) = 3
    /\ transcript[1].text = <<"a">>
    /\ transcript[2].text = <<NL>>
    /\ transcript[3].text = <<"a", NL, "b">>
    /\ Len(SplitLines(out_file[1], <<>>)) = 7
    /\ SplitLines(out_file[1], <<>>)[5] = <<"2">>
    /\ SplitLines(out_file[1], <<>>)[7] = <<"a", " ", "b">>

\* C22: at every point of a run the ids of index_recs, in order, are a prefix
\* of the ids of the video list; while the cascade of video i runs, exactly
\* the i - 1 videos before it have their record, and no cascade is under way
\* outside it; the index main writes lists the records in the list's order,
\* after errors and after an interrupt too.
C22_RecordsPrefixOfInput ==
    /\ Len(index_recs) <= Len(videos)
    /\ \A j \in 1..Len(index_recs) : index_recs[j].id = videos[j].id
    /\ pc = "cascade" => (cpc # "idle" /\ Len(index_recs) = i - 1)
    /\ pc = "loop" => (cpc = "idle" /\ Len(index_recs) = i - 1)
    /\ pc = "sleep" => (cpc = "idle" /\ Len(index_recs) = i)
    /\ (pc = "exit" /\ videos # <<>>) =>
          /\ indexFile # None
          /\ Len(indexFile[1]) = Len(index_recs)
          /\ \A j \in 1..Len(indexFile[1]) : indexFile[1][j].id = videos[j].id

\* C22 witness: a run over two different videos, the first ended in error,
\* interrupted in the pause after the second: the index holds both records in
\* the list's order.
C22_Witness ==
    /\ pc = "exit"
    /\ interrupted # None
    /\ Len(videos) = 2
    /\ videos[1].id # videos[2].id
    /\ Len(indexFile[1]) = 2
    /\ indexFile[1][1].status = "error"
    /\ indexFile[1][1].id = videos[1].id
    /\ indexFile[1][2].id = videos[2].id

\* how many calls of the current cascade carry one of the labels
Calls(labels) == Cardinality({j \in 1..Len(attempts) : attempts[j] \in labels})

\* C23: a cascade makes at most 4 extractor runs (the direct one and at most
\* 3 variants of one branch), at most 2 probe calls, enters the secondary
\* resolver at most once, and the resolver makes at most 2 direct fetches, 1
\* listing, 1 translation and 1 original-language fetch; no extractor variant
\* and no resolver call is made twice. Each call being one step, the cascade
\* is over after at most 12 calls.
C23_BoundedCascade ==
    /\ Calls(ExtractorLabels) <= 4
    /\ Calls({"probe"}) <= 2
    /\ Calls({"yta"}) <= 1
    /\ Calls({"get_transcript en-US", "get_transcript en"}) <= 2
    /\ Calls({"list_transcripts"}) <= 1
    /\ Calls({"translate"}) <= 1
    /\ Calls({"fetch"}) <= 1
    /\ \A a, b \in 1..Len(attempts) :
          (a # b /\ attempts[a] = attempts[b]) => attempts[a] = "probe"
    /\ Len(attempts) <= 12

====
